---- MODULE Spec2Model ----
(***************************************************************************)
(* A model of specfit/specdata.py: the PartitionFunction class, the unit   *)
(* conversions and the SpectroscopicData class (format_JPL, format_CDMS,   *)
(* query_JPL, query_CDMS, parse_datafile).                                 *)
(*                                                                         *)
(* Python values are tagged records (field k names the Python type), so    *)
(* that None, nan, numbers, tables and PartitionFunction objects can share *)
(* a variable.  A float is [k |-> "num", m, e], the number m * 10^e; nan   *)
(* is [k |-> "nan"]; the result of a closed-form physics formula is kept   *)
(* as the term that names the formula and its arguments.  An exception is  *)
(* the string naming it; "ok" is a normal return.                          *)
(***************************************************************************)
EXTENDS Integers, Sequences, FiniteSets, TLC

VARIABLES
    resp,   \* the raw response object the caller holds (or None)
    self,   \* the attributes of the SpectroscopicData object
    pf,     \* the PartitionFunction object the caller holds (or None)
    last,   \* the last call: its name, arguments and outcome
    calls   \* the number of method calls made on the object

vars == <<resp, self, pf, last, calls>>

\* ------------------------------------------------------------------ bounds
MaxRows == 2
MaxArr == 2
NSamples == 5
MaxCalls == 1

\* ------------------------------------------------------------ Python values
None == [k |-> "None"]
Unset == [k |-> "unset"]
NaN == [k |-> "nan"]
Num(m) == [k |-> "num", m |-> m, e |-> 0]
Scale(x, p) == IF x.k = "num" THEN [x EXCEPT !.e = @ + p]
               ELSE [k |-> "scaled", x |-> x, e |-> p]
IsNone(x) == x.k = "None"

RECURSIVE Float(_, _)
\* the float m * 10^e in the form every equal float shares: no positive
\* exponent, no trailing zero behind the point
Float(m, e) ==
    IF m = 0 THEN Num(0)
    ELSE IF e > 0 THEN Float(10 * m, e - 1)
    ELSE IF e < 0 /\ m % 10 = 0 THEN Float(m \div 10, e + 1)
    ELSE [k |-> "num", m |-> m, e |-> e]

\* the element of a one-element set: Only({F(x) : x \in {e}}) is F(e) with e
\* evaluated once
Only(S) == CHOOSE x \in S : TRUE

\* the number of decimal digits of n > 0
NumDigits(n) ==
    IF n < 10 THEN 1 ELSE IF n < 100 THEN 2 ELSE IF n < 1000 THEN 3
    ELSE IF n < 10000 THEN 4 ELSE IF n < 100000 THEN 5 ELSE IF n < 1000000 THEN 6
    ELSE IF n < 10000000 THEN 7 ELSE IF n < 100000000 THEN 8
    ELSE IF n < 1000000000 THEN 9 ELSE 10

\* m * 10^e <= n * 10^f, for m > 0 and n > 0 of at most nine digits
LEPositive(m, e, n, f) ==
    IF e = f THEN m <= n
    ELSE LET dm == NumDigits(m)
             dn == NumDigits(n)
         IN  \/ dm + e < dn + f
             \/ dm + e = dn + f /\ (IF dm > dn THEN m <= n * 10 ^ (dm - dn)
                                    ELSE m * 10 ^ (dn - dm) <= n)

\* a <= b and a == b of two floats
LE(a, b) ==
    IF a.m <= 0 /\ b.m >= 0 THEN TRUE
    ELSE IF a.m >= 0 /\ b.m <= 0 THEN FALSE
    ELSE IF a.m > 0 THEN LEPositive(a.m, a.e, b.m, b.e)
    ELSE LEPositive(0 - b.m, b.e, 0 - a.m, a.e)
NumEq(a, b) == LE(a, b) /\ LE(b, a)
NdArray(v) == [k |-> "ndarray", v |-> v]
PyInt(n) == [k |-> "int", v |-> n]

\* the error names of the taxonomy and the exception the code raises for each
OK == "ok"
SpeciesNotFound == "ValueError: no entries found for species tag"
MissingPartitionFunction == "ValueError: please provide partition function"
UnsupportedFormat == "ValueError: format should be either JPL or CDMS"
InsufficientData == "ValueError: x and y arrays must have at least 4 entries"
AmbiguousTruth == "ValueError: truth value of an array is ambiguous"
KeyErr == "KeyError"
IndexErr == "IndexError"
NotInList == "ValueError: x is not in list"
BadFloat == "ValueError: could not convert string to float"

\* ------------------------------------------------------- sequence helpers
RECURSIVE SelectIdx(_, _, _)
\* the elements s[i] with keep[i], in order (numpy boolean-mask indexing)
SelectIdx(s, keep, i) ==
    IF i > Len(s) THEN <<>>
    ELSE (IF keep[i] THEN <<s[i]>> ELSE <<>>) \o SelectIdx(s, keep, i + 1)

Reverse(s) == [i \in 1..Len(s) |-> s[Len(s) + 1 - i]]

\* the pairs of s in the order of their first component, equal ones in the
\* order they have in s (a stable sort)
SortPairs(s) ==
    LET before(v, i, j) == \/ ~LE(v[j][1], v[i][1])
                           \/ i < j /\ LE(v[i][1], v[j][1])
        rank(v, i) == Cardinality({j \in 1..Len(v) : before(v, j, i)}) + 1
    IN  Only({[r \in 1..Len(v) |-> v[CHOOSE i \in 1..Len(v) : ranks[i] = r]] :
              v \in {s}, ranks \in {[i \in 1..Len(s) |-> rank(s, i)]}})

\* the least of a sequence of integers
SeqMin(s) == s[CHOOSE i \in 1..Len(s) : \A j \in 1..Len(s) : s[i] <= s[j]]

\* np.nanmin of an array of floats
NanMin(s) == s[CHOOSE i \in 1..Len(s) : \A j \in 1..Len(s) : LE(s[i], s[j])]

\* np.nanmax of an array of floats
NanMax(s) == s[CHOOSE i \in 1..Len(s) : \A j \in 1..Len(s) : LE(s[j], s[i])]

Abs(n) == IF n < 0 THEN -n ELSE n

\* ------------------------------------------------------- PartitionFunction
\* the least number of points scipy's interp1d accepts for kind="cubic"
MinCubicPoints == 4

\* an interpolant that accepts any number of points
interp1d_unchecked(T, Q) ==
    Only({[exc |-> OK,
           fn |-> [k |-> "interp1d",
                   x |-> [i \in 1..Len(pts) |-> pts[i][1]],
                   y |-> [i \in 1..Len(pts) |-> pts[i][2]]]] :
          pts \in {SortPairs([i \in 1..Len(T) |-> <<T[i], Q[i]>>])}})

\* scipy.interpolate.interp1d(T, Q, kind="cubic", fill_value="extrapolate"):
\* sorts the points by x, refuses fewer than order + 1 of them
interp1d(T, Q) ==
    IF Len(T) < MinCubicPoints THEN [exc |-> InsufficientData, fn |-> None]
    ELSE Only({[exc |-> OK,
                fn |-> [k |-> "interp1d",
                        x |-> [i \in 1..Len(pts) |-> pts[i][1]],
                        y |-> [i \in 1..Len(pts) |-> pts[i][2]]]] :
               pts \in {SortPairs([i \in 1..Len(T) |-> <<T[i], Q[i]>>])}})

\* the interpolant at one temperature: the tabulated value at a sampled
\* temperature, the cubic (or its extrapolation) elsewhere
InterpAt(fn, t) ==
    IF \E i \in 1..Len(fn.x) : NumEq(fn.x[i], t)
    THEN fn.y[CHOOSE i \in 1..Len(fn.x) : NumEq(fn.x[i], t)]
    ELSE [k |-> "cubic", x |-> fn.x, y |-> fn.y, at |-> t]

\* ~np.isnan(self.Q)
NotNaN(Q) == [i \in 1..Len(Q) |-> Q[i].k # "nan"]

\* PartitionFunction._get_function
get_function(T, Q) ==
    Only({interp1d(SelectIdx(T, keep, 1), SelectIdx(Q, keep, 1)) : keep \in {NotNaN(Q)}})

\* PartitionFunction.__init__: the object, or the exception of _get_function
PartitionFunction_init(species, T, Q, database, ntrans) ==
    Only({IF f.exc # OK THEN [exc |-> f.exc, obj |-> None]
          ELSE [exc |-> OK,
                obj |-> [k |-> "PartitionFunction", species |-> species,
                         T |-> T, Q |-> Q, database |-> database,
                         ntrans |-> ntrans, function |-> f.fn]] :
          f \in {get_function(T, Q)}})

\* a temperature argument is a scalar [k |-> "scalar", v] or an array
\* [k |-> "array", v] of one or more temperatures
Scalar(t) == [k |-> "scalar", v |-> <<t>>]
Array(ts) == [k |-> "array", v |-> ts]

\* bool(T < np.nanmin(self.T) or T > np.nanmax(self.T)): elementwise on an
\* array, whose truth value numpy refuses when it has more than one element
OutsideRange(p, T) ==
    IF Len(T.v) > 1 THEN [exc |-> AmbiguousTruth, val |-> FALSE]
    ELSE [exc |-> OK,
          val |-> ~LE(NanMin(p.T), T.v[1]) \/ ~LE(T.v[1], NanMax(p.T))]

\* PartitionFunction.__call__
PartitionFunction_call(p, T, verbose) ==
    LET out == IF verbose THEN OutsideRange(p, T) ELSE [exc |-> OK, val |-> FALSE]
        val == [i \in 1..Len(T.v) |-> InterpAt(p.function, T.v[i])]
    IN  IF out.exc # OK
        THEN [exc |-> out.exc, warned |-> FALSE, value |-> None]
        ELSE [exc |-> OK, warned |-> out.val,
              value |-> IF Len(val) = 1 THEN val[1]
                        ELSE [k |-> "array", v |-> val]]

\* ------------------------------------------------------ unit conversions
wavenumber_to_Kelvin(wavenumber) ==
    [k |-> "wavenumber*h*c/k_B", x |-> wavenumber]

logint_to_EinsteinA(logint_300, nu0, gup, Elow, Q_300) ==
    LET ElowK == wavenumber_to_Kelvin(Elow)
        Eup == [k |-> "Elow+h*nu0*1e6/k_B", Elow |-> ElowK, nu0 |-> nu0]
        Smu2 == [k |-> "2.40251e4*10^logint*Q/nu0/(exp(-Elow/300)-exp(-Eup/300))",
                 logint |-> logint_300, Q |-> Q_300, nu0 |-> nu0,
                 Elow |-> ElowK, Eup |-> Eup]
    IN  [k |-> "1.16395e-20*nu0^3*Smu2/gup", nu0 |-> nu0, Smu2 |-> Smu2,
         gup |-> gup]

\* ---------------------------------------------------- column-name strings
\* A string is the sequence of its characters' code points, so that the
\* code's substring tests and its parsing of a temperature act on it and any
\* character can stand in it.
Contains(sub, s) ==
    \E i \in 1..(Len(s) - Len(sub) + 1) : SubSeq(s, i, i + Len(sub) - 1) = sub

RECURSIVE SplitLast(_, _)
\* s.split(ch)[-1]
SplitLast(s, ch) ==
    IF \E i \in 1..Len(s) : s[i] = ch
    THEN SplitLast(SubSeq(s, (CHOOSE i \in 1..Len(s) : s[i] = ch /\ \A j \in 1..(i - 1) : s[j] # ch) + 1, Len(s)), ch)
    ELSE s

\* s.split(ch)[0]
SplitFirst(s, ch) ==
    IF \E i \in 1..Len(s) : s[i] = ch
    THEN SubSeq(s, 1, (CHOOSE i \in 1..Len(s) : s[i] = ch /\ \A j \in 1..(i - 1) : s[j] # ch) - 1)
    ELSE s

\* float(s) of a string.  A string with a character beyond ASCII is first
\* rewritten in ASCII: a Unicode space becomes a space, a Unicode decimal
\* digit its ASCII digit, any other such character "?".  Then whitespace is
\* dropped at both ends, and what is left is a sign, then inf, infinity or nan
\* (in any case) or digits with an optional point, an optional exponent and
\* underscores between digits.  The decimal written is rounded to the nearest
\* double: to inf from 2^1024 - 2^970 on, to 0.0 up to 2^-1075.

\* the zero of every run of ten Unicode decimal digits
DecimalZeros == {
    48, 1632, 1776, 1984, 2406, 2534, 2662, 2790, 2918, 3046, 3174, 3302,
    3430, 3558, 3664, 3792, 3872, 4160, 4240, 6112, 6160, 6470, 6608, 6784,
    6800, 6992, 7088, 7232, 7248, 42528, 43216, 43264, 43472, 43504, 43600,
    44016, 65296, 66720, 68912, 69734, 69872, 69942, 70096, 70384, 70736,
    70864, 71248, 71360, 71472, 71904, 72016, 72784, 73040, 73120, 92768,
    92864, 93008, 120782, 120792, 120802, 120812, 120822, 123200, 123632,
    125264, 130032}

\* the characters beyond ASCII that are Unicode whitespace
UnicodeSpaces == {
    133, 160, 5760, 8192, 8193, 8194, 8195, 8196, 8197, 8198, 8199, 8200,
    8201, 8202, 8232, 8233, 8239, 8287, 12288}

\* the whitespace of ASCII: tab, line feed, vertical tab, form feed, carriage
\* return, space
Whitespace == {9, 10, 11, 12, 13, 32}

\* the ASCII digits
Digits == 48..57

IsDecimal(ch) == \E z \in DecimalZeros : ch \in z..(z + 9)
DecimalVal(ch) == ch - (CHOOSE z \in DecimalZeros : ch \in z..(z + 9))

\* the ASCII rewriting of a string that has a character beyond ASCII
ToASCII(s) ==
    IF \A i \in 1..Len(s) : s[i] < 128 THEN s
    ELSE [i \in 1..Len(s) |->
            IF s[i] < 127 THEN s[i]
            ELSE IF s[i] \in UnicodeSpaces THEN 32
            ELSE IF IsDecimal(s[i]) THEN 48 + DecimalVal(s[i])
            ELSE 63]

\* the position of the last character of s that is not in chars, 0 when none is
LastNotIn(s, chars) ==
    IF \A i \in 1..Len(s) : s[i] \in chars THEN 0
    ELSE Len(s) + 1 - CHOOSE n \in 1..Len(s) :
                          /\ s[Len(s) + 1 - n] \notin chars
                          /\ \A j \in 1..(n - 1) : s[Len(s) + 1 - j] \in chars

\* s without the ASCII whitespace at its two ends
TrimSpaces(s) ==
    IF \A i \in 1..Len(s) : s[i] \in Whitespace THEN <<>>
    ELSE SubSeq(s, CHOOSE i \in 1..Len(s) :
                       s[i] \notin Whitespace /\ \A j \in 1..(i - 1) : s[j] \in Whitespace,
                   LastNotIn(s, Whitespace))

\* an ASCII letter in lower case
Lower(ch) == IF ch \in 65..90 THEN ch + 32 ELSE ch

AllDigits(s) == \A i \in 1..Len(s) : s[i] \in Digits

\* an underscore (95) of a numeric literal stands between two digits
UnderscoresOK(s) ==
    \A i \in 1..Len(s) :
        s[i] = 95 => /\ i > 1 /\ i < Len(s)
                     /\ s[i - 1] \in Digits /\ s[i + 1] \in Digits

\* the position of the first character of s that is in chars, 0 when none is
FirstOf(s, chars) ==
    IF \E i \in 1..Len(s) : s[i] \in chars
    THEN CHOOSE i \in 1..Len(s) : s[i] \in chars /\ \A j \in 1..(i - 1) : s[j] \notin chars
    ELSE 0

\* s without its leading zeros, s without its trailing zeros (s a string of digits)
DropLeadingZeros(s) ==
    LET nz == FirstOf(s, 49..57) IN IF nz = 0 THEN <<>> ELSE SubSeq(s, nz, Len(s))
DropTrailingZeros(s) == SubSeq(s, 1, LastNotIn(s, {48}))

RECURSIVE DigitsUpTo(_, _)
\* the number the first n characters of the string of digits s write
DigitsUpTo(s, n) ==
    IF n = 0 THEN 0 ELSE 10 * DigitsUpTo(s, n - 1) + (s[n] - 48)

\* the number a string of digits writes, 0 for the empty string
DigitsVal(s) == DigitsUpTo(s, Len(s))

\* what float() raises for a string that writes no number
FloatValueError == [k |-> "raise", exc |-> "ValueError"]

\* 0.d * 10^e >= 0.t * 10^f, for strings of digits d and t that start with a
\* digit other than 0
DecimalGE(d, e, t, f) ==
    LET n == IF Len(d) > Len(t) THEN Len(d) ELSE Len(t)
        dd(i) == IF i <= Len(d) THEN d[i] ELSE 48
        tt(i) == IF i <= Len(t) THEN t[i] ELSE 48
        diff == {i \in 1..n : dd(i) # tt(i)}
    IN  \/ e > f
        \/ e = f /\ \/ diff = {}
                    \/ LET i == CHOOSE i \in diff : \A j \in diff : i <= j
                       IN  dd(i) > tt(i)

\* 2^1024 - 2^970, halfway between the largest double and 2^1024, is
\* 0.OverflowDigits * 10^309
OverflowDigits == <<
    49, 55, 57, 55, 54, 57, 51, 49, 51, 52, 56, 54, 50, 51, 49, 53, 56, 48,
    55, 57, 51, 55, 50, 56, 57, 55, 49, 52, 48, 53, 51, 48, 51, 52, 49, 53,
    48, 55, 57, 57, 51, 52, 49, 51, 50, 55, 49, 48, 48, 51, 55, 56, 50, 54,
    57, 51, 54, 49, 55, 51, 55, 55, 56, 57, 56, 48, 52, 52, 52, 57, 54, 56,
    50, 57, 50, 55, 54, 52, 55, 53, 48, 57, 52, 54, 54, 52, 57, 48, 49, 55,
    57, 55, 55, 53, 56, 55, 50, 48, 55, 48, 57, 54, 51, 51, 48, 50, 56, 54,
    52, 49, 54, 54, 57, 50, 56, 56, 55, 57, 49, 48, 57, 52, 54, 53, 53, 53,
    53, 52, 55, 56, 53, 49, 57, 52, 48, 52, 48, 50, 54, 51, 48, 54, 53, 55,
    52, 56, 56, 54, 55, 49, 53, 48, 53, 56, 50, 48, 54, 56, 49, 57, 48, 56,
    57, 48, 50, 48, 48, 48, 55, 48, 56, 51, 56, 51, 54, 55, 54, 50, 55, 51,
    56, 53, 52, 56, 52, 53, 56, 49, 55, 55, 49, 49, 53, 51, 49, 55, 54, 52,
    52, 55, 53, 55, 51, 48, 50, 55, 48, 48, 54, 57, 56, 53, 53, 53, 55, 49,
    51, 54, 54, 57, 53, 57, 54, 50, 50, 56, 52, 50, 57, 49, 52, 56, 49, 57,
    56, 54, 48, 56, 51, 52, 57, 51, 54, 52, 55, 53, 50, 57, 50, 55, 49, 57,
    48, 55, 52, 49, 54, 56, 52, 52, 52, 51, 54, 53, 53, 49, 48, 55, 48, 52,
    51, 52, 50, 55, 49, 49, 53, 53, 57, 54, 57, 57, 53, 48, 56, 48, 57, 51,
    48, 52, 50, 56, 56, 48, 49, 55, 55, 57, 48, 52, 49, 55, 52, 52, 57, 55,
    55, 57, 50>>

\* 2^-1075, half the least positive double, is 0.UnderflowDigits * 10^-323
UnderflowDigits == <<
    50, 52, 55, 48, 51, 50, 56, 50, 50, 57, 50, 48, 54, 50, 51, 50, 55, 50,
    48, 56, 56, 50, 56, 52, 51, 57, 54, 52, 51, 52, 49, 49, 48, 54, 56, 54,
    49, 56, 50, 53, 50, 57, 57, 48, 49, 51, 48, 55, 49, 54, 50, 51, 56, 50,
    50, 49, 50, 55, 57, 50, 56, 52, 49, 50, 53, 48, 51, 51, 55, 55, 53, 51,
    54, 51, 53, 49, 48, 52, 51, 55, 53, 57, 51, 50, 54, 52, 57, 57, 49, 56,
    49, 56, 48, 56, 49, 55, 57, 57, 54, 49, 56, 57, 56, 57, 56, 50, 56, 50,
    51, 52, 55, 55, 50, 50, 56, 53, 56, 56, 54, 53, 52, 54, 51, 51, 50, 56,
    51, 53, 53, 49, 55, 55, 57, 54, 57, 56, 57, 56, 49, 57, 57, 51, 56, 55,
    51, 57, 56, 48, 48, 53, 51, 57, 48, 57, 51, 57, 48, 54, 51, 49, 53, 48,
    51, 53, 54, 53, 57, 53, 49, 53, 53, 55, 48, 50, 50, 54, 51, 57, 50, 50,
    57, 48, 56, 53, 56, 51, 57, 50, 52, 52, 57, 49, 48, 53, 49, 56, 52, 52,
    51, 53, 57, 51, 49, 56, 48, 50, 56, 52, 57, 57, 51, 54, 53, 51, 54, 49,
    53, 50, 53, 48, 48, 51, 49, 57, 51, 55, 48, 52, 53, 55, 54, 55, 56, 50,
    52, 57, 50, 49, 57, 51, 54, 53, 54, 50, 51, 54, 54, 57, 56, 54, 51, 54,
    53, 56, 52, 56, 48, 55, 53, 55, 48, 48, 49, 53, 56, 53, 55, 54, 57, 50,
    54, 57, 57, 48, 51, 55, 48, 54, 51, 49, 49, 57, 50, 56, 50, 55, 57, 53,
    53, 56, 53, 53, 49, 51, 51, 50, 57, 50, 55, 56, 51, 52, 51, 51, 56, 52,
    48, 57, 51, 53, 49, 57, 55, 56, 48, 49, 53, 53, 51, 49, 50, 52, 54, 53,
    57, 55, 50, 54, 51, 53, 55, 57, 53, 55, 52, 54, 50, 50, 55, 54, 54, 52,
    54, 53, 50, 55, 50, 56, 50, 55, 50, 50, 48, 48, 53, 54, 51, 55, 52, 48,
    48, 54, 52, 56, 53, 52, 57, 57, 57, 55, 55, 48, 57, 54, 53, 57, 57, 52,
    55, 48, 52, 53, 52, 48, 50, 48, 56, 50, 56, 49, 54, 54, 50, 50, 54, 50,
    51, 55, 56, 53, 55, 51, 57, 51, 52, 53, 48, 55, 51, 54, 51, 51, 57, 48,
    48, 55, 57, 54, 55, 55, 54, 49, 57, 51, 48, 53, 55, 55, 53, 48, 54, 55,
    52, 48, 49, 55, 54, 51, 50, 52, 54, 55, 51, 54, 48, 48, 57, 54, 56, 57,
    53, 49, 51, 52, 48, 53, 51, 53, 53, 51, 55, 52, 53, 56, 53, 49, 54, 54,
    54, 49, 49, 51, 52, 50, 50, 51, 55, 54, 54, 54, 55, 56, 54, 48, 52, 49,
    54, 50, 49, 53, 57, 54, 56, 48, 52, 54, 49, 57, 49, 52, 52, 54, 55, 50,
    57, 49, 56, 52, 48, 51, 48, 48, 53, 51, 48, 48, 53, 55, 53, 51, 48, 56,
    52, 57, 48, 52, 56, 55, 54, 53, 51, 57, 49, 55, 49, 49, 51, 56, 54, 53,
    57, 49, 54, 52, 54, 50, 51, 57, 53, 50, 52, 57, 49, 50, 54, 50, 51, 54,
    53, 51, 56, 56, 49, 56, 55, 57, 54, 51, 54, 50, 51, 57, 51, 55, 51, 50,
    56, 48, 52, 50, 51, 56, 57, 49, 48, 49, 56, 54, 55, 50, 51, 52, 56, 52,
    57, 55, 54, 54, 56, 50, 51, 53, 48, 56, 57, 56, 54, 51, 51, 56, 56, 53,
    56, 55, 57, 50, 53, 54, 50, 56, 51, 48, 50, 55, 53, 53, 57, 57, 53, 54,
    53, 55, 53, 50, 52, 52, 53, 53, 53, 48, 55, 50, 53, 53, 49, 56, 57, 51,
    49, 51, 54, 57, 48, 56, 51, 54, 50, 53, 52, 55, 55, 57, 49, 56, 54, 57,
    52, 56, 54, 54, 55, 57, 57, 52, 57, 54, 56, 51, 50, 52, 48, 52, 57, 55,
    48, 53, 56, 50, 49, 48, 50, 56, 53, 49, 51, 49, 56, 53, 52, 53, 49, 51,
    57, 54, 50, 49, 51, 56, 51, 55, 55, 50, 50, 56, 50, 54, 49, 52, 53, 52,
    51, 55, 54, 57, 51, 52, 49, 50, 53, 51, 50, 48, 57, 56, 53, 57, 49, 51,
    50, 55, 54, 54, 55, 50, 51, 54, 51, 50, 56, 49, 50, 53>>

\* the double nearest to 0.d * 10^e, negated when neg; d is a string of
\* digits without leading and trailing zeros.  A decimal of at most nine
\* digits is the float Float(m, e) that names its nearest double, a longer
\* one the term [k |-> "double", ...] of the decimal itself.
NearestDouble(neg, d, e) ==
    IF d = <<>> THEN Num(0)
    ELSE IF DecimalGE(d, e, OverflowDigits, 309) THEN [k |-> "inf", neg |-> neg]
    ELSE IF DecimalGE(UnderflowDigits, -323, d, e) THEN Num(0)
    ELSE IF Len(d) <= 9 /\ e <= 9 /\ e >= 0 - 306
    THEN Float(IF neg THEN 0 - DigitsVal(d) ELSE DigitsVal(d), e - Len(d))
    ELSE [k |-> "double", neg |-> neg, digits |-> d, e |-> e]

\* float() reads at most MAX_DIGITS digits from the first digit other than 0
\* on, and at most MAX_DIGITS digits behind the point; an exponent of more
\* than MaxExpDigits digits counts as MAX_ABS_EXP
MAX_DIGITS == 1000000000
MAX_ABS_EXP == 1100000000
MaxExpDigits == 9

\* the value of the digits ex of an exponent, leading zeros dropped
ExponentVal(ex) == IF Len(ex) > MaxExpDigits THEN MAX_ABS_EXP ELSE DigitsVal(ex)

\* the float of a mantissa (digits with an optional point at dot) and an
\* exponent (an optional sign and digits, the empty string when there is none):
\* the mantissa is scaled by the exponent before the range of a double decides
FloatOfParts(neg, mant, hasexp, expo, dot) ==
    LET intd == IF dot = 0 THEN mant ELSE SubSeq(mant, 1, dot - 1)
        frac == IF dot = 0 THEN <<>> ELSE SubSeq(mant, dot + 1, Len(mant))
        eneg == expo # <<>> /\ expo[1] = 45
        esgn == expo # <<>> /\ expo[1] \in {43, 45}
        edig == IF esgn THEN Tail(expo) ELSE expo
    IN  IF \/ ~AllDigits(intd) \/ ~AllDigits(frac)
           \/ Len(intd) + Len(frac) = 0
           \/ hasexp /\ (edig = <<>> \/ ~AllDigits(edig))
        THEN FloatValueError
        ELSE Only({
            IF Len(sig) > MAX_DIGITS \/ Len(frac) > MAX_DIGITS THEN FloatValueError
            ELSE IF sig = <<>> THEN Num(0)
            ELSE NearestDouble(neg, DropTrailingZeros(sig),
                               Len(sig) - Len(frac)
                                 + (IF eneg THEN 0 - ExponentVal(ex)
                                    ELSE ExponentVal(ex))) :
            sig \in {DropLeadingZeros(intd \o frac)},
            ex \in {DropLeadingZeros(edig)}})

\* the float of a numeric literal v without sign and underscores; ep is the
\* position of its e or E, 0 when it has none
FloatOfLiteral(neg, v, ep) ==
    Only({FloatOfParts(neg, mant, ep # 0,
                       IF ep = 0 THEN <<>> ELSE SubSeq(v, ep + 1, Len(v)),
                       FirstOf(mant, {46})) :
          mant \in {IF ep = 0 THEN v ELSE SubSeq(v, 1, ep - 1)}})

\* the float of an ASCII string t without whitespace at its ends
FloatOfStripped(t) ==
    LET signed == t # <<>> /\ t[1] \in {43, 45}
        neg == t # <<>> /\ t[1] = 45
        u == IF signed THEN Tail(t) ELSE t
        w == [i \in 1..Len(u) |-> Lower(u[i])]
    IN  IF w \in {<<105, 110, 102>>, <<105, 110, 102, 105, 110, 105, 116, 121>>}
        THEN [k |-> "inf", neg |-> neg]
        ELSE IF w = <<110, 97, 110>> THEN NaN
        ELSE IF ~UnderscoresOK(u) THEN FloatValueError
        ELSE Only({FloatOfLiteral(neg, v, FirstOf(v, {69, 101})) :
                   v \in {SelectSeq(u, LAMBDA ch : ch # 95)}})

\* float(s)
ParseFloat(s) == Only({FloatOfStripped(t) : t \in {TrimSpaces(ToASCII(s))}})

\* ------------------------------------------------- species master tables
\* the column names TAG, NAME, NLINE, VER, QLOG1 .. QLOG7, tag, molecule,
\* #lines and lg(Q(<temperature>))
cTAG == <<84, 65, 71>>
cNAME == <<78, 65, 77, 69>>
cNLINE == <<78, 76, 73, 78, 69>>
cVER == <<86, 69, 82>>
cQLOG(d) == <<81, 76, 79, 71>> \o <<48 + d>>
ctag == <<116, 97, 103>>
cmolecule == <<109, 111, 108, 101, 99, 117, 108, 101>>
clines == <<35, 108, 105, 110, 101, 115>>
clgQ(temperature) == <<108, 103, 40, 81, 40>> \o temperature \o <<41, 41>>

\* what JPL.get_species_table() returns: one row per species; the QLOG columns
\* run from the highest temperature of the metadata's grid to the lowest; a
\* QLOG of 0 marks a temperature the catalog does not tabulate
JPLSpeciesTable ==
    [colnames |-> <<cTAG, cNAME, cNLINE, cQLOG(1), cQLOG(2), cQLOG(3),
                    cQLOG(4), cQLOG(5), cVER>>,
     TAG |-> <<1001, 2001, 3001>>,
     NAME |-> <<"H-atom", "D-atom", "HD">>,
     NLINE |-> <<1, 1, 2>>,
     QLOG |-> << <<6, 5, 4, 3, 2>>, <<6, 5, 0, 3, 2>>, <<6, 0, 4, 0, 2>> >>,
     temperature |-> <<Num(300), Num(225), Num(150), Num(75), Float(375, -1)>>]

\* what CDMS.get_species_table() returns; the temperature of each
\* partition-function column is part of its name
CDMSSpeciesTable ==
    [colnames |-> <<ctag, cmolecule, clines, clgQ(<<53, 48, 48>>),
                    clgQ(<<51, 48, 48>>), clgQ(<<49, 53, 48>>),
                    clgQ(<<55, 53>>), clgQ(<<51, 55, 46, 53>>)>>,
     tag |-> <<28503, 30502, 31501>>,
     molecule |-> <<"CO, v=0", "H2CO", "CH3O">>,
     lines |-> <<3, 4, 5>>,
     lg |-> << <<7, 6, 5, 4, 3>>, <<0, 6, 5, 4, 3>>, <<7, 0, 5, 0, 3>> >>]

\* self.species_table names the (shared, immutable) CDMS master table
CDMSSpeciesTableRef == [k |-> "ref", to |-> "CDMS.get_species_table()"]

\* list.index(x): the first position of x, 0 when absent (Python raises ValueError)
ListIndex(lst, x) ==
    IF \E i \in 1..Len(lst) : lst[i] = x
    THEN CHOOSE i \in 1..Len(lst) : lst[i] = x /\ \A j \in 1..(i - 1) : lst[j] # x
    ELSE 0

\* float(v) or np.nan
FloatOrNaN(v) == IF v = 0 THEN NaN ELSE Num(v)

\* 10 ** x
Pow10(x) == IF x.k = "nan" THEN NaN ELSE [k |-> "10^", x |-> x]

\* SpectroscopicData.read_JPL_partition_function
read_JPL_partition_function(species_table, tag) ==
    LET row == ListIndex(species_table.TAG, tag)
        qcols == SelectSeq(species_table.colnames,
                           LAMBDA c : Contains(<<81, 76, 79, 71>>, c))
        logQ == Reverse([i \in 1..Len(qcols) |-> FloatOrNaN(species_table.QLOG[row][i])])
    IN  [T |-> Reverse(species_table.temperature),
         Q |-> [i \in 1..Len(logQ) |-> Pow10(logQ[i])]]

\* SpectroscopicData.read_CDMS_partition_function
read_CDMS_partition_function(species_table, tag) ==
    LET row == ListIndex(species_table.tag, tag)
        lgcols == SelectSeq(species_table.colnames,
                            LAMBDA c : Contains(<<108, 103>>, c))
        T == [i \in 1..Len(lgcols) |->
                 ParseFloat(SplitFirst(SplitLast(lgcols[i], 40), 41))]
    IN  [exc |-> IF \E i \in 1..Len(T) : T[i].k = "raise" THEN BadFloat ELSE OK,
         T |-> T,
         Q |-> [i \in 1..Len(lgcols) |-> Pow10(FloatOrNaN(species_table.lg[row][i]))]]

\* T, Q = self.read_JPL_partition_function(species_table, tag) and the
\* PartitionFunction(self.species, T, Q, ...) built from them, for the master
\* row idx that tag selects
JPLRowSeed ==
    [idx \in 1..Len(JPLSpeciesTable.TAG) |->
        read_JPL_partition_function(JPLSpeciesTable, JPLSpeciesTable.TAG[idx])]
JPLRowFunction ==
    [idx \in 1..Len(JPLSpeciesTable.TAG) |->
        PartitionFunction_init(JPLSpeciesTable.NAME[idx], JPLRowSeed[idx].T,
                               JPLRowSeed[idx].Q, None,
                               NdArray(JPLSpeciesTable.NLINE))]

\* the same for format_CDMS and the CDMS master table
CDMSRowSeed ==
    [idx \in 1..Len(CDMSSpeciesTable.tag) |->
        read_CDMS_partition_function(CDMSSpeciesTable, CDMSSpeciesTable.tag[idx])]
CDMSRowFunction ==
    [idx \in 1..Len(CDMSSpeciesTable.tag) |->
        PartitionFunction_init(CDMSSpeciesTable.molecule[idx], CDMSRowSeed[idx].T,
                               CDMSRowSeed[idx].Q, None,
                               NdArray(CDMSSpeciesTable.lines))]

\* ------------------------------------------------------------ astropy Table
\* A table is [k |-> "Table", colnames, col, meta]: the column names in
\* order, each column's data, unit, whether it is a MaskedColumn and its
\* mask, and the metadata dictionary.
Column(data) == [data |-> data, masked |-> FALSE,
                 mask |-> [i \in 1..Len(data) |-> FALSE], unit |-> ""]

EmptyMeta == [x \in {} |-> None]

HasCol(t, c) == \E i \in 1..Len(t.colnames) : t.colnames[i] = c

\* len(table)
TLen(t) == IF t.colnames = <<>> THEN 0 ELSE Len(t.col[t.colnames[1]].data)

\* Table.remove_columns(names) of present columns
RemoveCols(t, names) ==
    [t EXCEPT !.colnames = SelectSeq(@, LAMBDA c : c \notin names),
              !.col = [c \in (DOMAIN @) \ names |-> @[c]]]

\* Table.rename_column(old, new) of a present column
RenameCol(t, old, new) ==
    [t EXCEPT !.colnames = [i \in 1..Len(@) |-> IF @[i] = old THEN new ELSE @[i]],
              !.col = [c \in ((DOMAIN @) \ {old}) \cup {new} |->
                          IF c = new THEN @[old] ELSE @[c]]]

\* Table.add_column(col, name, index=0)
AddColFirst(t, name, column) ==
    [t EXCEPT !.colnames = <<name>> \o @,
              !.col = [c \in (DOMAIN @) \cup {name} |->
                          IF c = name THEN column ELSE @[c]]]

\* table[name] = data, table[name] *= factor: the column's cells replaced
SetData(t, name, data) == [t EXCEPT !.col[name].data = data]

SetUnit(t, name, unit) == [t EXCEPT !.col[name].unit = unit]

\* table[name] = column, name an existing column: the column object replaced
ReplaceCol(t, name, column) == [t EXCEPT !.col[name] = column]

\* table.meta[key] = value
SetMeta(t, key, value) ==
    [t EXCEPT !.meta = [x \in (DOMAIN @) \cup {key} |->
                           IF x = key THEN value ELSE @[x]]]

\* Table.mask is not None: some column is a MaskedColumn
HasMask(t) == \E c \in DOMAIN t.col : t.col[c].masked

\* [col for col in table.colnames if np.all(table.mask[col])]
MaskedColumns(t) ==
    {c \in DOMAIN t.col : \A i \in 1..Len(t.col[c].mask) : t.col[c].mask[i]}

\* int(np.unique(table[name])[0]): the least value of the column
UniqueFirst(t, name) ==
    SeqMin([i \in 1..TLen(t) |-> t.col[name].data[i]])

\* ------------------------------------------------------ SpectroscopicData
\* The state of a running method: the table self.table names (the very
\* object the caller passed), the object's other attributes, the exception
\* raised so far, the seed data (T, Q) read from the master table for a
\* PartitionFunction, if any, whether that object was built, and the
\* normalizer that is running.  A step acts only while no exception is
\* pending.
Running(tbl, obj, via) ==
    [tbl |-> tbl, self |-> obj, exc |-> OK, seed |-> None, built |-> FALSE,
     via |-> via]
Seed(TQ) == [k |-> "seed", T |-> TQ.T, Q |-> TQ.Q]
Raise(st, e) == [st EXCEPT !.exc = e]

\* 1. remove masked column (format_JPL, format_CDMS)
RemoveMasked(st) ==
    IF st.exc # OK \/ ~HasMask(st.tbl) THEN st
    ELSE [st EXCEPT !.tbl = RemoveCols(@, MaskedColumns(@))]

\* table.remove_columns(names): KeyError when one of them is absent
StepRemove(st, names) ==
    IF st.exc # OK THEN st
    ELSE IF \E c \in names : ~HasCol(st.tbl, c) THEN Raise(st, KeyErr)
    ELSE [st EXCEPT !.tbl = RemoveCols(@, names)]

\* table.rename_column(old, new): KeyError when old is absent
StepRename(st, old, new) ==
    IF st.exc # OK THEN st
    ELSE IF ~HasCol(st.tbl, old) THEN Raise(st, KeyErr)
    ELSE [st EXCEPT !.tbl = RenameCol(@, old, new)]

\* table[name] *= 1e-3; unit GHz
StepToGHz(st, name) ==
    IF st.exc # OK THEN st
    ELSE [st EXCEPT !.tbl =
            SetUnit(SetData(@, name,
                            [i \in 1..TLen(@) |-> Scale(@.col[name].data[i], -3)]),
                    name, "GHz")]

\* 3-1. rename frequency (and error) and to GHz
StepFrequency(st, nofreqerr) ==
    LET f == StepToGHz(StepRename(st, "FREQ", "Frequency"), "Frequency")
    IN  IF nofreqerr THEN f
        ELSE StepToGHz(StepRename(f, "ERR", "Frequency Error"), "Frequency Error")

\* 3-3. E_low to E_up
StepEup(st) ==
    LET r == StepRename(st, "ELO", "E_up")
    IN  IF r.exc # OK THEN r
        ELSE [r EXCEPT !.tbl =
                SetUnit(SetData(@, "E_up",
                    [i \in 1..TLen(@) |->
                        [k |-> "x+h*nu*1e9/k_B",
                         x |-> wavenumber_to_Kelvin(@.col["E_up"].data[i]),
                         nu |-> @.col["Frequency"].data[i]]]),
                    "E_up", "K")]

\* SpectroscopicData._set_quantities
set_quantities(st) ==
    IF st.exc # OK THEN st
    ELSE LET t == st.tbl
             col(c) == t.col[c].data
         IN  [st EXCEPT
                !.self.mu = IF "Molecular Weight" \in DOMAIN t.meta
                            THEN t.meta["Molecular Weight"] ELSE @,
                !.self.Q = t.meta["Partition Function"],
                !.self.nu0 = NdArray([i \in 1..TLen(t) |-> Scale(col("Frequency")[i], 9)]),
                !.self.Aul = NdArray(col("A_ul")),
                !.self.gup = NdArray(col("g_up")),
                !.self.Eup = NdArray(col("E_up"))]

\* format_JPL, 2.: the species and the partition function
JPLSpecies(st, species, pfarg) ==
    IF st.exc # OK THEN st
    ELSE IF species # "None"
    THEN LET s == [st EXCEPT !.self.species = species]
         IN  IF IsNone(pfarg) THEN Raise(s, MissingPartitionFunction)
             ELSE [s EXCEPT !.tbl = SetMeta(@, "Partition Function", pfarg)]
    ELSE IF ~HasCol(st.tbl, "TAG") THEN Raise(st, KeyErr)
    ELSE IF TLen(st.tbl) = 0 THEN Raise(st, IndexErr)
    ELSE LET tag == Abs(UniqueFirst(st.tbl, "TAG"))
             species_table == JPLSpeciesTable
             idx == ListIndex(species_table.TAG, tag)
         IN  IF idx = 0 THEN Raise(st, SpeciesNotFound)
             ELSE LET s == [st EXCEPT !.self.species = species_table.NAME[idx]]
                      TQ == JPLRowSeed[idx]
                      P == JPLRowFunction[idx]
                  IN  IF ~IsNone(pfarg)
                      THEN [s EXCEPT !.tbl = SetMeta(@, "Partition Function", pfarg)]
                      ELSE IF P.exc # OK
                      THEN [s EXCEPT !.exc = P.exc, !.seed = Seed(TQ)]
                      ELSE [s EXCEPT !.tbl = SetMeta(@, "Partition Function", P.obj),
                                     !.seed = Seed(TQ), !.built = TRUE]

\* format_JPL, 2. (second): Species metadata, unnecessary columns, Species column
JPLColumns(st, nofreqerr) ==
    LET m == IF st.exc # OK THEN st
             ELSE [st EXCEPT !.tbl = SetMeta(@, "Species", st.self.species)]
        r == StepRemove(m, {"DR", "TAG", "QNFMT"})
        e == IF nofreqerr THEN StepRemove(r, {"ERR"}) ELSE r
    IN  IF e.exc # OK THEN e
        ELSE IF HasCol(e.tbl, "Species") THEN Raise(e, "ValueError: duplicate column")
        ELSE [e EXCEPT !.tbl = AddColFirst(@, "Species",
                  Column([i \in 1..TLen(@) |-> e.self.species]))]

\* format_JPL, 3-2.: A coeff to not log.  The value assigned is a new column:
\* the result of Column arithmetic whose first Column operand is nu0 ** 3, so
\* it carries the unit and mask of Frequency * 1e3, that is, of Frequency
JPLEinsteinA(st) ==
    LET r == StepRename(st, "LGINT", "A_ul")
    IN  IF r.exc # OK THEN r
        ELSE LET t == r.tbl
                 Q == PartitionFunction_call(t.meta["Partition Function"],
                                             Scalar(Num(300)), FALSE)
             IN  [r EXCEPT !.tbl = ReplaceCol(@, "A_ul",
                    [t.col["Frequency"] EXCEPT !.data =
                        [i \in 1..TLen(t) |->
                            logint_to_EinsteinA(t.col["A_ul"].data[i],
                                                Scale(t.col["Frequency"].data[i], 3),
                                                t.col["GUP"].data[i],
                                                t.col["ELO"].data[i],
                                                Q.value)]])]

\* SpectroscopicData.format_JPL, from self.table = response on
format_JPL(response, obj, species, nofreqerr, pfarg) ==
    set_quantities(
      StepRename(
        StepEup(
          JPLEinsteinA(
            StepFrequency(
              JPLColumns(
                JPLSpecies(RemoveMasked(Running(response, obj, "JPL")), species, pfarg),
                nofreqerr),
              nofreqerr))),
        "GUP", "g_up"))

\* format_CDMS, 2.: the species, molecular weight and partition function
CDMSSpecies(st, use_cached) ==
    IF st.exc # OK THEN st
    ELSE IF ~HasCol(st.tbl, "MOLWT") THEN Raise(st, KeyErr)
    ELSE IF TLen(st.tbl) = 0 THEN Raise(st, IndexErr)
    ELSE LET w == [st EXCEPT !.self.molweight = PyInt(UniqueFirst(st.tbl, "MOLWT"))]
         IN  IF ~HasCol(w.tbl, "TAG") THEN Raise(w, KeyErr)
             ELSE LET tag == w.self.molweight.v * 1000 + Abs(UniqueFirst(w.tbl, "TAG"))
                      t == [w EXCEPT !.self.species_table = CDMSSpeciesTableRef]
                      idx == ListIndex(CDMSSpeciesTable.tag, tag)
                  IN  IF idx = 0 THEN Raise(t, NotInList)
                      ELSE LET s == [t EXCEPT
                                      !.self.species = CDMSSpeciesTable.molecule[idx],
                                      !.tbl = SetMeta(SetMeta(@, "Species",
                                                  CDMSSpeciesTable.molecule[idx]),
                                                  "Molecular Weight", t.self.molweight)]
                               TQ == CDMSRowSeed[idx]
                               P == CDMSRowFunction[idx]
                           IN  IF TQ.exc # OK THEN Raise(s, TQ.exc)
                               ELSE IF P.exc # OK
                               THEN [s EXCEPT !.exc = P.exc, !.seed = Seed(TQ)]
                               ELSE [s EXCEPT
                                      !.tbl = SetMeta(@, "Partition Function", P.obj),
                                      !.seed = Seed(TQ), !.built = TRUE]

\* format_CDMS, 2. (second): unnecessary columns, Species column from "name"
CDMSColumns(st, nofreqerr) ==
    LET r == StepRemove(st, {"DR", "TAG", "QNFMT", "MOLWT", "Lab"})
        e == IF nofreqerr THEN StepRemove(r, {"ERR"}) ELSE r
    IN  IF e.exc # OK THEN e
        ELSE IF ~HasCol(e.tbl, "name") THEN Raise(e, KeyErr)
        ELSE IF HasCol(e.tbl, "Species") THEN Raise(e, "ValueError: duplicate column")
        ELSE [e EXCEPT !.tbl = RemoveCols(AddColFirst(@, "Species", @.col["name"]),
                                          {"name"})]

\* format_CDMS, 3-2.: A coeff to not log
CDMSEinsteinA(st) ==
    LET r == StepRename(st, "LGAIJ", "A_ul")
    IN  IF r.exc # OK THEN r
        ELSE [r EXCEPT !.tbl = SetData(@, "A_ul",
                [i \in 1..TLen(@) |-> Pow10(@.col["A_ul"].data[i])])]

\* SpectroscopicData.format_CDMS, from self.table = response on
format_CDMS(response, obj, use_cached, nofreqerr) ==
    set_quantities(
      StepRename(
        StepEup(
          CDMSEinsteinA(
            StepFrequency(
              CDMSColumns(
                CDMSSpecies(RemoveMasked(Running(response, obj, "CDMS")), use_cached),
                nofreqerr),
              nofreqerr))),
        "GUP", "g_up"))

\* ------------------------------------------------------ the collaborators
\* The raw responses of the line-list services and of the fixed-width
\* reader: up to MaxRows rows of one catalog entry.  The entry is a species
\* of the master table ("known": every partition-function sample present;
\* "signed": one sample missing and the tags of measured lines negative;
\* "sparse": too few samples) or one the master table lacks ("unknown").
Patterns == {"known", "signed", "sparse", "unknown"}
\* a column delivered as a MaskedColumn with every cell missing, or none
MaskChoices == {"none", "ERR", "DR", "QNFMT"}

JPLNames == <<"FREQ", "ERR", "LGINT", "DR", "ELO", "GUP", "TAG", "QNFMT",
              "QN'", "QN\"">>
CDMSFileNames == <<"FREQ", "ERR", "LGINT", "DR", "ELO", "GUP", "MOLWT", "TAG",
                   "QNFMT", "Ju", "Ku", "vu", "F1u", "F2u", "F3u", "Jl", "Kl",
                   "vl", "F1l", "F2l", "F3l", "name">>
CDMSQueryNames == <<"FREQ", "ERR", "LGAIJ", "DR", "ELO", "GUP", "MOLWT", "TAG",
                    "QNFMT", "Ju", "Ku", "vu", "F1u", "F2u", "F3u", "Jl", "Kl",
                    "vl", "F1l", "F2l", "F3l", "name", "Lab">>

RawTag(catalog, pat, i) ==
    IF catalog = "JPL"
    THEN CASE pat = "known" -> 1001
           [] pat = "signed" -> IF i % 2 = 1 THEN -2001 ELSE 2001
           [] pat = "sparse" -> 3001
           [] pat = "unknown" -> 9001
    ELSE CASE pat = "known" -> 503
           [] pat = "signed" -> IF i % 2 = 1 THEN -502 ELSE 502
           [] pat = "sparse" -> 501
           [] pat = "unknown" -> 503

RawMolwt(pat) ==
    CASE pat = "known" -> 28 [] pat = "signed" -> 30 [] pat = "sparse" -> 31
      [] pat = "unknown" -> 99

\* the cell of column c in row i: a float in the float columns, an integer
\* in the integer columns, a string in the others
RawCell(catalog, pat, c, i) ==
    CASE c = "FREQ" -> Num(1000 * i)
      [] c = "ERR" -> Num(i)
      [] c \in {"LGINT", "LGAIJ"} -> Num(0 - 5)
      [] c = "ELO" -> Num(10 * i)
      [] c = "GUP" -> 3
      [] c = "TAG" -> RawTag(catalog, pat, i)
      [] c = "MOLWT" -> RawMolwt(pat)
      [] c \in {"DR", "QNFMT"} -> i
      [] c = "name" -> "CO"
      [] OTHER -> "1 0"

RawTable(catalog, names, n, pat, mc) ==
    [k |-> "Table", colnames |-> names,
     col |-> [c \in {names[j] : j \in 1..Len(names)} |->
                [data |-> [i \in 1..n |-> RawCell(catalog, pat, c, i)],
                 masked |-> (mc = c \/ (mc = "ERR-unmasked" /\ c = "ERR")),
                 mask |-> [i \in 1..n |-> mc = c],
                 unit |-> ""]],
     meta |-> EmptyMeta]

\* the responses: one without rows (delivered with or without a
\* MaskedColumn), one of MaxRows rows per catalog entry, and one per column
\* that is missing in every row
RawTables(catalog, names) ==
    {RawTable(catalog, names, 0, "known", mc) : mc \in {"none", "ERR"}}
    \cup {RawTable(catalog, names, MaxRows, pat, "none") : pat \in Patterns}
    \cup {RawTable(catalog, names, MaxRows, "known", mc) : mc \in MaskChoices}

\* JPL.query_lines(...): a response, or None when no line lies in the range
JPLQueryResults == RawTables("JPL", JPLNames) \cup {None}
\* CDMS.query_lines(..., temperature_for_intensity=0)
CDMSQueryResults == RawTables("CDMS", CDMSQueryNames) \cup {None}
\* ascii.read(self.filename, names=..., format="fixed_width")
ReadJPL == RawTables("JPL", JPLNames)
ReadCDMS == RawTables("CDMS", CDMSFileNames)

\* the PartitionFunction objects a caller passes as pf
CallerPF ==
    PartitionFunction_init("X", <<Num(10), Num(20), Num(50), Num(100), Num(300)>>,
                           <<Num(2), Num(3), NaN, Num(7), Num(9)>>, None, None).obj
PfArgs == {None, CallerPF}
SpeciesArgs == {"None", "X"}
Formats == {"JPL", "CDMS", "None", "VOTable"}
FileArgs == {"None", "lines.cat"}

\* ------------------------------------------------------------- the state
\* self.table is a reference: to the response object the caller still
\* holds (k = "ref", its contents are resp) or to one only the object holds
\* (k = "own").
NoObject ==
    [alive |-> FALSE, filename |-> "None", table |-> Unset, species |-> "unset",
     Q |-> Unset, nu0 |-> Unset, Aul |-> Unset, gup |-> Unset, Eup |-> Unset,
     mu |-> Unset, molweight |-> Unset, species_table |-> Unset]

Own(t) == [k |-> "own", t |-> t]
Ref == [k |-> "ref"]

\* the table self.table names
Table(obj, held) ==
    IF obj.table.k = "ref" THEN held
    ELSE IF obj.table.k = "own" THEN obj.table.t ELSE None

NoCall == [op |-> "none", exc |-> OK]

Init ==
    /\ resp = None
    /\ self = NoObject
    /\ pf = None
    /\ last = NoCall
    /\ calls = 0

\* the record of a call of a SpectroscopicData method
\* (input: the raw response as the method received it; via: the normalizer
\* that ran; changed: whether an attribute of the object was assigned a new
\* value)
Called(op, fmt, species, pfarg, nofreqerr, input, obj, st) ==
    [op |-> op, filename |-> obj.filename, fmt |-> fmt, species |-> species,
     pfarg |-> pfarg, nofreqerr |-> nofreqerr, input |-> input, via |-> st.via,
     exc |-> st.exc, seed |-> st.seed, built |-> st.built,
     changed |-> (st.self # obj)]

\* a dispatch without the final else branch
parse_datafile_noelse(obj, fmt, species, pfarg, response) ==
    IF fmt = "JPL" THEN format_JPL(response, obj, species, FALSE, pfarg)
    ELSE IF fmt = "CDMS" THEN format_CDMS(response, obj, FALSE, FALSE)
    ELSE Running(None, obj, "None")

\* SpectroscopicData.parse_datafile on the attributes obj: the file is read
\* and normalized under a recognized format, ValueError otherwise
parse_datafile(obj, fmt, species, pfarg, response) ==
    IF fmt = "JPL" THEN format_JPL(response, obj, species, FALSE, pfarg)
    ELSE IF fmt = "CDMS" THEN format_CDMS(response, obj, FALSE, FALSE)
    ELSE Raise(Running(None, obj, "None"), UnsupportedFormat)

\* what ascii.read returns for the file under the format's column layout
FileReads(fmt) ==
    IF fmt = "JPL" THEN ReadJPL ELSE IF fmt = "CDMS" THEN ReadCDMS ELSE {None}

\* SpectroscopicData(filename, format, species, pf): an exception of
\* parse_datafile leaves the caller without an object
Construct ==
    /\ ~self.alive
    /\ \E filename \in FileArgs, fmt \in Formats, species \in SpeciesArgs,
          pfarg \in PfArgs :
         LET obj == [NoObject EXCEPT !.alive = TRUE, !.filename = filename]
         IN  IF filename = "None"
             THEN /\ self' = obj
                  /\ last' = Called("__init__", fmt, species, pfarg, FALSE, None,
                                    obj, Running(None, obj, "None"))
             ELSE \E response \in FileReads(fmt) :
                    LET st == parse_datafile(obj, fmt, species, pfarg, response)
                    IN  /\ self' = IF st.exc = OK
                                   THEN [st.self EXCEPT !.table = Own(st.tbl)]
                                   ELSE NoObject
                        /\ last' = Called("__init__", fmt, species, pfarg, FALSE,
                                          response, obj, st)
    /\ UNCHANGED <<resp, pf, calls>>

\* obj.parse_datafile(format, species, pf)
ParseDatafile ==
    /\ self.alive
    /\ calls < MaxCalls
    /\ self.filename # "None"
    /\ \E fmt \in Formats, species \in SpeciesArgs, pfarg \in PfArgs :
       \E response \in FileReads(fmt) :
         LET st == parse_datafile(self, fmt, species, pfarg, response)
         IN  /\ self' = IF IsNone(response) THEN st.self
                        ELSE [st.self EXCEPT !.table = Own(st.tbl)]
             /\ last' = Called("parse_datafile", fmt, species, pfarg, FALSE,
                               response, self, st)
    /\ calls' = calls + 1
    /\ UNCHANGED <<resp, pf>>

\* obj.query_JPL(freq_range, species_id, nofreqerr)
QueryJPL ==
    /\ self.alive
    /\ calls < MaxCalls
    /\ \E response \in JPLQueryResults, nofreqerr \in BOOLEAN :
         IF IsNone(response)
         THEN /\ last' = Called("query_JPL", "JPL", "None", None, nofreqerr, None,
                                self, Running(None, self, "None"))
              /\ UNCHANGED self
         ELSE LET st == format_JPL(response, self, "None", nofreqerr, None)
              IN  /\ self' = [st.self EXCEPT !.table = Own(st.tbl)]
                  /\ last' = Called("query_JPL", "JPL", "None", None, nofreqerr,
                                    response, self, st)
    /\ calls' = calls + 1
    /\ UNCHANGED <<resp, pf>>

\* obj.query_CDMS(freq_range, species_id, use_cached, nofreqerr)
QueryCDMS ==
    /\ self.alive
    /\ calls < MaxCalls
    /\ \E response \in CDMSQueryResults, nofreqerr \in BOOLEAN :
         IF IsNone(response)
         THEN /\ last' = Called("query_CDMS", "CDMS", "None", None, nofreqerr, None,
                                self, Running(None, self, "None"))
              /\ UNCHANGED self
         ELSE LET st == format_CDMS(response, self, FALSE, nofreqerr)
              IN  /\ self' = [st.self EXCEPT !.table = Own(st.tbl)]
                  /\ last' = Called("query_CDMS", "CDMS", "None", None, nofreqerr,
                                    response, self, st)
    /\ calls' = calls + 1
    /\ UNCHANGED <<resp, pf>>

\* the response objects the caller can pass to a normalizer: the one it
\* holds, or one it has just obtained from the service
CallerResponses(fresh) ==
    (fresh \ {None}) \cup (IF IsNone(resp) THEN {} ELSE {resp})

\* obj.format_JPL(response, species, nofreqerr, pf) on the caller's response,
\* which the caller goes on holding
FormatJPL ==
    /\ self.alive
    /\ calls < MaxCalls
    /\ \E response \in CallerResponses(JPLQueryResults), species \in SpeciesArgs,
          nofreqerr \in BOOLEAN, pfarg \in PfArgs :
         LET st == format_JPL(response, self, species, nofreqerr, pfarg)
         IN  /\ resp' = st.tbl
             /\ self' = [st.self EXCEPT !.table = Ref]
             /\ last' = Called("format_JPL", "JPL", species, pfarg, nofreqerr,
                               response, self, st)
    /\ calls' = calls + 1
    /\ UNCHANGED pf

\* obj.format_CDMS(response, use_cached, nofreqerr) on the caller's response
FormatCDMS ==
    /\ self.alive
    /\ calls < MaxCalls
    /\ \E response \in CallerResponses(CDMSQueryResults), nofreqerr \in BOOLEAN :
         LET st == format_CDMS(response, self, FALSE, nofreqerr)
         IN  /\ resp' = st.tbl
             /\ self' = [st.self EXCEPT !.table = Ref]
             /\ last' = Called("format_CDMS", "CDMS", "None", None, nofreqerr,
                               response, self, st)
    /\ calls' = calls + 1
    /\ UNCHANGED pf

\* --------------------------------------------- PartitionFunction, alone
\* the sampled temperatures a caller tabulates, in either order
Grid == [i \in 1..NSamples |-> Num(10 * i)]
TempGrids == {Grid, Reverse(Grid)}
\* the values: sample i is nan for i in the set, 10^i otherwise
Samples(nans) == [i \in 1..NSamples |-> IF i \in nans THEN NaN ELSE Pow10(Num(i))]
\* temperatures below, at, inside and above the sampled range
EvalTemps == {Num(5), Num(10), Num(25), Num(10 * NSamples), Num(10 * NSamples + 5)}
ArraysOf(S) == UNION {[1..n -> S] : n \in 1..MaxArr}
TempArgs == {Scalar(t) : t \in EvalTemps} \cup {Array(ts) : ts \in ArraysOf(EvalTemps)}

\* pf = PartitionFunction(species, T, Q): an exception leaves pf as it was
NewPF ==
    /\ \E T \in TempGrids, nans \in SUBSET (1..NSamples) :
         LET P == PartitionFunction_init("X", T, Samples(nans), None, None)
         IN  /\ pf' = IF P.exc = OK THEN P.obj ELSE pf
             /\ last' = [op |-> "PartitionFunction", T |-> T, Q |-> Samples(nans),
                         exc |-> P.exc, obj |-> P.obj]
    /\ UNCHANGED <<resp, self, calls>>

\* pf(T, verbose)
CallPF ==
    /\ ~IsNone(pf)
    /\ \E T \in TempArgs, verbose \in BOOLEAN :
         LET r == PartitionFunction_call(pf, T, verbose)
         IN  last' = [op |-> "__call__", T |-> T, verbose |-> verbose,
                      exc |-> r.exc, value |-> r.value, warned |-> r.warned]
    /\ UNCHANGED <<resp, self, pf, calls>>

NextPF ==
    \/ NewPF
    \/ CallPF

SpecPF == Init /\ [][NextPF]_vars

Next ==
    \/ Construct
    \/ ParseDatafile
    \/ QueryJPL
    \/ QueryCDMS
    \/ FormatJPL
    \/ FormatCDMS

Spec == Init /\ [][Next]_vars

\* ================================================================ claims
MethodOps == {"__init__", "parse_datafile", "query_JPL", "query_CDMS",
              "format_JPL", "format_CDMS"}
\* the last call ran a normalizer on a raw response
NormCall == last.op \in MethodOps /\ last.via # "None"

CanonicalColumns == {"Species", "Frequency", "A_ul", "g_up", "E_up"}
RawColumns == {"FREQ", "LGINT", "LGAIJ", "ELO", "GUP", "TAG", "DR", "QNFMT",
               "MOLWT", "Lab", "name", "ERR"}
\* t is a fully normalized LineList
IsLineList(t) ==
    /\ t.k = "Table"
    /\ \A c \in CanonicalColumns : HasCol(t, c)
    /\ \A c \in RawColumns : ~HasCol(t, c)
    /\ {"Species", "Partition Function"} \subseteq DOMAIN t.meta

\* the number of samples of Q that are not nan
ValidCount(Q) == Cardinality({i \in 1..Len(Q) : Q[i].k # "nan"})

\* ------------------------------------------------------------------- C1
\* C1: every normalization call (JPL or CDMS) that is given a species name
\* but no partition function fails with MissingPartitionFunction and
\* produces no LineList.
C1_MissingPartitionFunction ==
    (NormCall /\ last.species # "None" /\ IsNone(last.pfarg))
        => /\ last.exc = MissingPartitionFunction
           /\ ~last.built
           /\ ~IsLineList(Table(self, resp))

\* ------------------------------------------------------------------- C2
\* C2: normalizing a raw response without rows raises no error and yields a
\* LineList with zero records (the call being one that may succeed: not a
\* species name without a partition function).
C2_EmptyResponse ==
    (/\ NormCall
     /\ TLen(last.input) = 0
     /\ ~(last.species # "None" /\ IsNone(last.pfarg)))
        => /\ last.exc = OK
           /\ IsLineList(Table(self, resp))
           /\ TLen(Table(self, resp)) = 0

\* ------------------------------------------------------------------- C3
\* the response as the resolver sees it: without its entirely-missing columns
Cleaned(t, via) == RemoveMasked(Running(t, NoObject, via)).tbl
\* the response carries a lookup key: it has rows and the key's columns
KeyDerivable(t, via) ==
    /\ TLen(t) > 0
    /\ HasCol(t, "TAG")
    /\ via = "CDMS" => HasCol(t, "MOLWT")
\* the tag of the response, as the catalog writes it (signed)
TagOf(t) == UniqueFirst(t, "TAG")
\* the key of the response as the claim words it: the tag for the by-tag
\* resolver, molecular weight * 1000 + |tag| for the composite-key resolver
LookupKeyAsWorded(t, via) ==
    IF via = "JPL" THEN TagOf(t)
    ELSE UniqueFirst(t, "MOLWT") * 1000 + Abs(TagOf(t))
MasterKeys(via) ==
    IF via = "JPL" THEN {JPLSpeciesTable.TAG[i] : i \in 1..Len(JPLSpeciesTable.TAG)}
    ELSE {CDMSSpeciesTable.tag[i] : i \in 1..Len(CDMSSpeciesTable.tag)}
\* the call failed with SpeciesNotFound, built no partition function, and
\* left the table as the resolver received it: nothing attached to its
\* metadata, no column converted, no LineList
NotFoundOutcome ==
    /\ last.exc = SpeciesNotFound
    /\ ~last.built
    /\ IsNone(last.seed)
    /\ LET t == Table(self, resp)
       IN  t.k = "Table" =>
             /\ t = Cleaned(last.input, last.via)
             /\ ~IsLineList(t)
UnresolvedCall(t) ==
    /\ NormCall
    /\ last.species = "None"
    /\ KeyDerivable(t, last.via)

\* C3: whenever species is not supplied and the key derived from the
\* response (the tag for the by-tag resolver, molecular weight * 1000 + |tag|
\* for the composite-key resolver) is in no row of the master table, the
\* call fails with SpeciesNotFound, attaches no species and no partition
\* function, and produces no LineList.
C3_SpeciesNotFound ==
    NormCall =>
      LET t == Cleaned(last.input, last.via)
      IN  (UnresolvedCall(t) /\ LookupKeyAsWorded(t, last.via) \notin MasterKeys(last.via))
            => NotFoundOutcome

\* ------------------------------------------------------------------- C4
\* the last call went through the orchestrator with a file to read
Orchestrated ==
    /\ last.op \in {"__init__", "parse_datafile"}
    /\ last.filename # "None"

\* C4: a format other than "JPL" and "CDMS" (None included, also through the
\* constructor) fails with UnsupportedFormat before a file is read, a
\* species resolved or a normalizer run; a recognized format runs exactly
\* its own normalizer.
C4_UnsupportedFormat ==
    Orchestrated =>
      IF last.fmt \in {"JPL", "CDMS"}
      THEN last.via = last.fmt /\ last.exc # UnsupportedFormat
      ELSE /\ last.exc = UnsupportedFormat
           /\ last.via = "None"
           /\ IsNone(last.input)
           /\ ~last.changed
           /\ ~last.built
           /\ IsNone(last.seed)

\* the constructor was given a file and no format, and failed
C4_Witness ==
    /\ Orchestrated
    /\ last.op = "__init__"
    /\ last.fmt = "None"
    /\ last.exc = UnsupportedFormat

\* ------------------------------------------------------------------- C6
\* C6: when the caller supplies a partition function, the LineList's
\* Partition Function is that function and none is built from the master
\* table's seed data.
C6_SuppliedPartitionFunction ==
    (NormCall /\ ~IsNone(last.pfarg))
        => /\ ~last.built
           /\ IsNone(last.seed)
           /\ last.exc = OK =>
                Table(self, resp).meta["Partition Function"] = last.pfarg

\* ------------------------------------------------------------------- C7
\* p keeps exactly the (temperature, value) pairs whose value is not nan
ExactFilter(p) ==
    /\ Len(p.function.x) = ValidCount(p.Q)
    /\ Len(p.function.y) = ValidCount(p.Q)
    /\ \A i \in 1..Len(p.Q) :
         p.Q[i].k # "nan" =>
           \E j \in 1..Len(p.function.x) :
             p.function.x[j] = p.T[i] /\ p.function.y[j] = p.Q[i]
WellBuilt(p) == ExactFilter(p) /\ Len(p.function.x) >= 4
\* the partition function attached to table t, if any, is well built
AttachedWellBuilt(t) ==
    (t.k = "Table" /\ "Partition Function" \in DOMAIN t.meta)
        => WellBuilt(t.meta["Partition Function"])

\* C7: a PartitionFunction keeps exactly the pairs whose value is not nan;
\* building one from fewer than 4 such pairs fails with InsufficientData, so
\* every partition function attached to a table or held by the object has
\* at least 4 valid points.
C7_InsufficientData ==
    /\ (last.op \in MethodOps /\ ~IsNone(last.seed))
         => /\ (ValidCount(last.seed.Q) < 4) <=> (last.exc = InsufficientData)
            /\ (ValidCount(last.seed.Q) < 4) <=> ~last.built
    /\ AttachedWellBuilt(Table(self, resp))
    /\ AttachedWellBuilt(resp)
    /\ self.Q.k = "PartitionFunction" => WellBuilt(self.Q)

\* a seed with too few valid points was refused
C7_Witness ==
    /\ last.op \in MethodOps
    /\ ~IsNone(last.seed)
    /\ ValidCount(last.seed.Q) = 3
    /\ last.exc = InsufficientData

\* a seed with a nan among its points was built and attached
C7_WitnessFiltered ==
    /\ last.op \in MethodOps
    /\ last.built
    /\ ValidCount(last.seed.Q) < Len(last.seed.Q)
    /\ self.Q.k = "PartitionFunction"

\* ------------------------------------------------------------------- C8
\* column c of t is missing in every row
EntirelyMissing(t, c) ==
    /\ HasCol(t, c)
    /\ t.col[c].masked
    /\ \A i \in 1..TLen(t) : t.col[c].mask[i]

\* C8: a JPL response with rows in which ERR, DR or QNFMT is missing in every
\* row still normalizes: the call completes and yields a LineList with the
\* canonical columns and without the dropped column.
C8_MissingColumnDropped ==
    (/\ NormCall
     /\ last.via = "JPL"
     /\ TLen(last.input) > 0
     /\ ~(last.species # "None" /\ IsNone(last.pfarg))
     /\ \E c \in {"ERR", "DR", "QNFMT"} : EntirelyMissing(last.input, c))
        => /\ last.exc = OK
           /\ IsLineList(Table(self, resp))
           /\ ~HasCol(Table(self, resp), "Frequency Error")

\* ------------------------------------------------------------------- C9
\* C9: format_JPL and format_CDMS work on a copy: after the call the
\* caller's raw response is what it was before the call.
C9_ResponseUntouched ==
    last.op \in {"format_JPL", "format_CDMS"} => resp = last.input

\* ------------------------------------------------------------------ C10
\* the derived quantities of the object are those of table t
DerivedFrom(t) ==
    /\ self.Q = t.meta["Partition Function"]
    /\ self.nu0 = NdArray([i \in 1..TLen(t) |-> Scale(t.col["Frequency"].data[i], 9)])
    /\ self.Aul = NdArray(t.col["A_ul"].data)
    /\ self.gup = NdArray(t.col["g_up"].data)
    /\ self.Eup = NdArray(t.col["E_up"].data)

\* C10: whenever the object has a table and derived quantities, the table is
\* a fully normalized LineList and the quantities are those of that table.
C10_DerivedMatchTable ==
    (self.alive /\ self.table.k # "unset" /\ self.Q.k # "unset")
        => /\ IsLineList(Table(self, resp))
           /\ DerivedFrom(Table(self, resp))

\* ------------------------------------------------------------------- C5
\* T lies outside the range of the sampled temperatures
Outside(p, T) ==
    \E i \in 1..Len(T.v) : ~LE(NanMin(p.T), T.v[i]) \/ ~LE(T.v[i], NanMax(p.T))

\* C5: pf(T, verbose=True) has the outcome of pf(T, verbose=False), for a
\* scalar and for an array T: the same value and no failure of its own; the
\* warning is printed exactly when T lies outside the sampled range.
C5_VerboseSameOutcome ==
    (last.op = "__call__" /\ last.verbose)
        => LET quiet == PartitionFunction_call(pf, last.T, FALSE)
           IN  /\ last.exc = quiet.exc
               /\ last.value = quiet.value
               /\ last.warned <=> Outside(pf, last.T)

====
